---- MODULE Spec2Model ----
(***************************************************************************)
(* Model of the operation renderer of gen-api-models                      *)
(* (src/commands/gen-api-models/render.ts): the request-type declaration   *)
(* of an operation (renderOperation), the response-decoder block           *)
(* (renderDecoderCode) and the per-response decoder expression             *)
(* (getDecoderForResponse).  Generated code is text; it is modelled as     *)
(* TLA+ strings, built exactly as the template literals of the source      *)
(* build it (newlines and indentation included).                           *)
(***************************************************************************)
EXTENDS Integers, Sequences, FiniteSets

VARIABLES
  operationInfo,             \* the IOperationInfo handed to the renderer
  generateResponseDecoders,  \* the decoder flag of renderOperation
  pc,                        \* "start" before the call, "done" after it
  result                     \* what the called function returned

vars == <<operationInfo, generateResponseDecoders, pc, result>>

(***************************************************************************)
(* Bounds of the model.                                                    *)
(***************************************************************************)
MaxResponses == 3      \* longest response list handed to renderDecoderCode
MaxOpResponses == 1    \* longest response list of the renderOperation inputs
MaxParameters == 2     \* longest parameter list of the renderOperation inputs

(***************************************************************************)
(* JavaScript primitives used by the source.                               *)
(***************************************************************************)
\* s[i] / s.charAt(i) with a 1-based index; "" when out of range
CharAt(s, i) == IF i >= 1 /\ i <= Len(s) THEN SubSeq(s, i, i) ELSE ""

\* Array.prototype.join
RECURSIVE join(_, _)
join(xs, sep) ==
  IF Len(xs) = 0 THEN ""
  ELSE IF Len(xs) = 1 THEN xs[1]
  ELSE xs[1] \o sep \o join(Tail(xs), sep)

\* String.prototype.includes, for a one-character pattern
includes(s, c) == \E i \in 1..Len(s) : CharAt(s, i) = c

\* String.prototype.replace with a string pattern: the FIRST occurrence only
replace(s, c, by) ==
  IF ~includes(s, c) THEN s
  ELSE LET i == CHOOSE k \in 1..Len(s) :
                  /\ CharAt(s, k) = c
                  /\ \A j \in 1..(k - 1) : CharAt(s, j) # c
       IN  SubSeq(s, 1, i - 1) \o by \o SubSeq(s, i + 1, Len(s))

\* the decimal text of a natural number, as `${i}` renders it
RECURSIVE numberToString(_)
numberToString(n) ==
  IF n < 10 THEN CharAt("0123456789", n + 1)
  ELSE numberToString(n \div 10) \o CharAt("0123456789", (n % 10) + 1)

(***************************************************************************)
(* lib/utils: capitalize, uncapitalize, toUnionOfLiterals, withGenerics.   *)
(***************************************************************************)
LowerCase == "abcdefghijklmnopqrstuvwxyz"
UpperCase == "ABCDEFGHIJKLMNOPQRSTUVWXYZ"

toUpperCase(c) ==
  IF includes(LowerCase, c)
  THEN CharAt(UpperCase, CHOOSE k \in 1..Len(LowerCase) : CharAt(LowerCase, k) = c)
  ELSE c

toLowerCase(c) ==
  IF includes(UpperCase, c)
  THEN CharAt(LowerCase, CHOOSE k \in 1..Len(UpperCase) : CharAt(UpperCase, k) = c)
  ELSE c

capitalize(s) ==
  IF s = "" THEN "" ELSE toUpperCase(CharAt(s, 1)) \o SubSeq(s, 2, Len(s))

uncapitalize(s) ==
  IF s = "" THEN "" ELSE toLowerCase(CharAt(s, 1)) \o SubSeq(s, 2, Len(s))

toUnionOfLiterals(names) ==
  IF Len(names) = 0 THEN "never"
  ELSE join([k \in 1..Len(names) |-> "\"" \o names[k] \o "\""], " | ")

withGenerics(baseName, paramExprs) ==
  IF Len(paramExprs) = 0 THEN baseName
  ELSE baseName \o "<" \o join(paramExprs, ", ") \o ">"

\* a builder that settles the "undefined" case when the code is generated
getDecoderForResponseStatic(r, varName) ==
  LET status == r.e1
      type == r.e2
      headers == r.e3
  IN  IF type = "Error"
      THEN "r.basicErrorResponseDecoder<" \o status \o ">(" \o status \o ")"
      ELSE IF type = "undefined"
      THEN "r.constantResponseDecoder<undefined, " \o status \o ", " \o toUnionOfLiterals(headers) \o ">(" \o status \o ", undefined)"
      ELSE "r.ioResponseDecoder<" \o status \o ", (typeof " \o varName \o "[" \o status \o "])[\"_A\"], (typeof " \o varName \o "[" \o status \o "])[\"_O\"], " \o toUnionOfLiterals(headers) \o ">(" \o status \o ", " \o varName \o "[" \o status \o "])"

(***************************************************************************)
(* getDecoderForResponse (render.ts 347-361)                               *)
(***************************************************************************)
getDecoderForResponse(r, varName) ==
  LET status == r.e1
      type == r.e2
      headers == r.e3
  IN  IF type = "Error"
      THEN "r.basicErrorResponseDecoder<" \o status \o ">(" \o status \o ")"
      ELSE varName \o "[" \o status \o "].name === \"undefined\" \n        ? r.constantResponseDecoder<undefined, " \o status \o ", " \o toUnionOfLiterals(headers) \o ">(" \o status \o ", undefined) \n        : r.ioResponseDecoder<" \o status \o ", (typeof " \o varName \o "[" \o status \o "])[\"_A\"], (typeof " \o varName \o "[" \o status \o "])[\"_O\"], " \o toUnionOfLiterals(headers) \o ">(" \o status \o ", " \o varName \o "[" \o status \o "])"

(***************************************************************************)
(* renderDecoderCode (render.ts 191-335)                                   *)
(***************************************************************************)
\* a lookup that forgets the length test
isSuccessStatusAnyLength(e1) == CharAt(e1, 1) = "2"

\* the predicate of the first-success lookup (line 194)
isSuccessStatus(e1) == Len(e1) = 3 /\ CharAt(e1, 1) = "2"

\* a lookup that keeps the last matching entry instead of the first
lastSuccessType(responses) ==
  IF \E k \in 1..Len(responses) : isSuccessStatus(responses[k].e1)
  THEN LET i == CHOOSE k \in 1..Len(responses) :
                    /\ isSuccessStatus(responses[k].e1)
                    /\ \A j \in (k + 1)..Len(responses) : ~isSuccessStatus(responses[j].e1)
       IN  [defined |-> TRUE, e1 |-> responses[i].e1,
            e2 |-> responses[i].e2, e3 |-> responses[i].e3]
  ELSE [defined |-> FALSE]

\* responses.find(...): the first matching entry, or undefined (lines 193-195)
firstSuccessType(responses) ==
  IF \E k \in 1..Len(responses) : isSuccessStatus(responses[k].e1)
  THEN LET i == CHOOSE k \in 1..Len(responses) :
                    /\ isSuccessStatus(responses[k].e1)
                    /\ \A j \in 1..(k - 1) : ~isSuccessStatus(responses[j].e1)
       IN  [defined |-> TRUE, e1 |-> responses[i].e1,
            e2 |-> responses[i].e2, e3 |-> responses[i].e3]
  ELSE [defined |-> FALSE]

typeVarName == "type"

decoderFunctionName(operationId) == operationId \o "Decoder"
defaultDecoderFunctionName(operationId) == operationId \o "DefaultDecoder"

decoderName(statusCode) == "d" \o statusCode

\* one element of the decoderDefinitions map; i is the 0-based index (lines 209-216)
decoderDefinition(r, i) ==
  LET statusCode == r.e1
      headerNames == r.e3
  IN  "\n    const " \o decoderName(statusCode) \o " = (" \o getDecoderForResponse(r, typeVarName) \o ") as r.ResponseDecoder<r.IResponseType<" \o statusCode \o ", A" \o numberToString(i) \o ", " \o toUnionOfLiterals(headerNames) \o ">>;\n  "

decoderDefinitions(responses) ==
  join([k \in 1..Len(responses) |-> decoderDefinition(responses[k], k - 1)], "")

\* a fold step that nests the accumulator on the right
composeStepSwapped(acc, statusCode) ==
  IF acc = "" THEN "d" \o statusCode
  ELSE "r.composeResponseDecoders(" \o "d" \o statusCode \o ", " \o acc \o ")"

\* one step of the composedDecoders reduce (lines 220-223)
composeStep(acc, statusCode) ==
  IF acc = "" THEN decoderName(statusCode)
  ELSE "r.composeResponseDecoders(" \o acc \o ", " \o decoderName(statusCode) \o ")"

\* responses.reduce(..., "") over the first n entries (lines 219-225)
RECURSIVE composedDecodersUpTo(_, _)
composedDecodersUpTo(responses, n) ==
  IF n = 0 THEN ""
  ELSE composeStep(composedDecodersUpTo(responses, n - 1), responses[n].e1)

composedDecoders(responses) == composedDecodersUpTo(responses, Len(responses))

\* [..., `A${i}`, `C${i}`] (lines 229-232)
RECURSIVE responsesTGenericsUpTo(_, _)
responsesTGenericsUpTo(responses, n) ==
  IF n = 0 THEN <<>>
  ELSE responsesTGenericsUpTo(responses, n - 1)
         \o <<"A" \o numberToString(n - 1), "C" \o numberToString(n - 1)>>

responsesTGenerics(responses) == responsesTGenericsUpTo(responses, Len(responses))

\* [..., `A${i} = ${r.e2}`, `C${i} = ${r.e2}`] (lines 236-239)
RECURSIVE responsesTGenericsWithDefaultTypesUpTo(_, _)
responsesTGenericsWithDefaultTypesUpTo(responses, n) ==
  IF n = 0 THEN <<>>
  ELSE responsesTGenericsWithDefaultTypesUpTo(responses, n - 1)
         \o <<"A" \o numberToString(n - 1) \o " = " \o responses[n].e2,
              "C" \o numberToString(n - 1) \o " = " \o responses[n].e2>>

responsesTGenericsWithDefaultTypes(responses) ==
  responsesTGenericsWithDefaultTypesUpTo(responses, Len(responses))

responsesTypeName(operationId, responses) ==
  withGenerics(capitalize(operationId) \o "ResponsesT", responsesTGenerics(responses))

responsesTypeNameWithDefaultTypes(operationId, responses) ==
  withGenerics(capitalize(operationId) \o "ResponsesT",
               responsesTGenericsWithDefaultTypes(responses))

decoderDefinitionName(operationId, responses) ==
  withGenerics(decoderFunctionName(operationId),
               responsesTGenericsWithDefaultTypes(responses))

\* a field typed over (A_i, A_i)
responsesTFieldSameParameter(statusCode, i) ==
  statusCode \o ": t.Type<A" \o numberToString(i) \o ", A" \o numberToString(i) \o ">"

\* `${statusCode}: t.Type<A${i}, C${i}>`; i is the 0-based index (line 260)
responsesTField(statusCode, i) ==
  statusCode \o ": t.Type<A" \o numberToString(i) \o ", C" \o numberToString(i) \o ">"

responsesTContent(responses) ==
  [k \in 1..Len(responses) |-> responsesTField(responses[k].e1, k - 1)]

responsesT(operationId, responses) ==
  "\n    export type " \o responsesTypeNameWithDefaultTypes(operationId, responses) \o " = {\n      " \o join(responsesTContent(responses), ", ") \o "\n    };\n  "

\* one step of the responsesSuccessTContent reduce; i is the 0-based index
\* (lines 276-277)
successTStep(p, r, i, first) ==
  IF r.e1 # first.e1 THEN p
  ELSE "t.Type<A" \o numberToString(i) \o ", C" \o numberToString(i) \o ">"

RECURSIVE responsesSuccessTContentUpTo(_, _, _)
responsesSuccessTContentUpTo(responses, first, n) ==
  IF n = 0 THEN ""
  ELSE successTStep(responsesSuccessTContentUpTo(responses, first, n - 1),
                    responses[n], n - 1, first)

responsesSuccessTContent(responses, first) ==
  responsesSuccessTContentUpTo(responses, first, Len(responses))

defaultResponsesVarName(operationId) == uncapitalize(operationId) \o "DefaultResponses"

\* an entry that keeps the payload type name whatever it is
defaultResponsesEntryVerbatim(r) == r.e1 \o ": " \o r.e2

\* `${r.e1}: ${r.e2 === "undefined" ? "t.undefined" : r.e2}` (line 295)
defaultResponsesEntry(r) ==
  r.e1 \o ": " \o (IF r.e2 = "undefined" THEN "t.undefined" ELSE r.e2)

defaultResponses(operationId, responses) ==
  "\n    export const " \o defaultResponsesVarName(operationId) \o " = {\n      " \o join([k \in 1..Len(responses) |-> defaultResponsesEntry(responses[k])], ", ") \o "\n    };\n  "

\* one member of the return type; i is the 0-based index (lines 310-312)
returnTypeMember(r, i) ==
  "r.IResponseType<" \o r.e1 \o ", A" \o numberToString(i) \o ", " \o toUnionOfLiterals(r.e3) \o ">"

returnType(responses) ==
  "r.ResponseDecoder<\n    " \o join([k \in 1..Len(responses) |-> returnTypeMember(responses[k], k - 1)], "|") \o "\n  >"

renderDecoderCode(op) ==
  LET responses == op.responses
      operationId == op.operationId
      first == firstSuccessType(responses)
  IN  IF ~first.defined THEN ""
      ELSE "\n      " \o defaultResponses(operationId, responses) \o "\n      " \o responsesT(operationId, responses) \o "\n      export function " \o decoderDefinitionName(operationId, responses) \o "(overrideTypes: Partial<" \o responsesTypeName(operationId, responses) \o "> | " \o responsesSuccessTContent(responses, first) \o " | undefined = {}): " \o returnType(responses) \o " {\n        const isDecoder = (d: any): d is " \o responsesSuccessTContent(responses, first) \o " =>\n          typeof d[\"_A\"] !== \"undefined\";\n\n        const " \o typeVarName \o " = {\n          ...(" \o defaultResponsesVarName(operationId) \o " as unknown as " \o responsesTypeName(operationId, responses) \o "),\n          ...(isDecoder(overrideTypes) ? { " \o first.e1 \o ": overrideTypes } : overrideTypes)\n        };\n\n        " \o decoderDefinitions(responses) \o "\n        return " \o composedDecoders(responses) \o "\n      }\n\n      // Decodes the success response with the type defined in the specs\n      export const " \o defaultDecoderFunctionName(operationId) \o " = () => " \o decoderFunctionName(operationId) \o "();"

(***************************************************************************)
(* renderOperation (render.ts 137-183)                                     *)
(***************************************************************************)
requestType(method) == "r.I" \o capitalize(method) \o "ApiRequestType"

headersCode(headers) ==
  IF Len(headers) > 0
  THEN join([k \in 1..Len(headers) |-> "\"" \o headers[k] \o "\""], "|")
  ELSE "never"

responsesTypeMember(r) ==
  "r.IResponseType<" \o r.e1 \o ", " \o r.e2 \o ", " \o toUnionOfLiterals(r.e3) \o ">"

responsesType(responses) ==
  join([k \in 1..Len(responses) |-> responsesTypeMember(responses[k])], "|")

\* an escape that looks only at a trailing "?"
escapeIdentifierTrailingOnly(id) ==
  IF CharAt(id, Len(id)) = "?" THEN "\"" \o SubSeq(id, 1, Len(id) - 1) \o "\"?"
  ELSE "\"" \o id \o "\""

\* wraps an identifier with doublequotes (lines 158-159)
escapeIdentifier(id) ==
  IF includes(id, "?") THEN "\"" \o replace(id, "?", "") \o "\"?"
  ELSE "\"" \o id \o "\""

paramCode(param) == "readonly " \o escapeIdentifier(param.name) \o ": " \o param.type

paramsCode(parameters) ==
  join([k \in 1..Len(parameters) |-> paramCode(parameters[k])], ",")

\* a decoder block emitted whatever the flag is
responsesDecoderCodeAlways(op, flag) == renderDecoderCode(op)

\* lines 165-167
responsesDecoderCode(op, flag) == IF flag THEN renderDecoderCode(op) ELSE ""

requestTypeDefinition(op) ==
  "export type " \o capitalize(op.operationId) \o "T = " \o requestType(op.method) \o "<{" \o paramsCode(op.parameters) \o "}, " \o headersCode(op.headers) \o ", never, " \o responsesType(op.responses) \o ">;\n  "

renderOperation(op, flag) ==
  "\n    /****************************************************************\n     * " \o op.operationId \o "\n     */\n\n    // Request type definition\n    " \o requestTypeDefinition(op) \o responsesDecoderCode(op, flag)

(***************************************************************************)
(* Inputs.                                                                 *)
(***************************************************************************)
RECURSIVE SeqsUpTo(_, _)
SeqsUpTo(S, n) ==
  IF n = 0 THEN {<<>>}
  ELSE LET shorter == SeqsUpTo(S, n - 1)
       IN  shorter \cup {Append(s, x) : s \in {t \in shorter : Len(t) = n - 1}, x \in S}

\* the response triples handed to renderDecoderCode: qualifying and
\* non-qualifying status codes, each payload kind, with and without headers
Responses ==
  {[e1 |-> "200", e2 |-> "Thing", e3 |-> <<>>],
   [e1 |-> "200", e2 |-> "undefined", e3 |-> <<>>],
   [e1 |-> "201", e2 |-> "Other", e3 |-> <<"Location">>],
   [e1 |-> "404", e2 |-> "undefined", e3 |-> <<"a", "b">>],
   [e1 |-> "500", e2 |-> "Error", e3 |-> <<>>],
   [e1 |-> "2XX", e2 |-> "Thing", e3 |-> <<>>],
   [e1 |-> "20", e2 |-> "Error", e3 |-> <<>>],
   [e1 |-> "2000", e2 |-> "Thing", e3 |-> <<>>]}

\* the response triples of the renderOperation inputs
OpResponses ==
  {[e1 |-> "200", e2 |-> "Thing", e3 |-> <<"Location">>],
   [e1 |-> "500", e2 |-> "Error", e3 |-> <<>>]}

ParameterNames == {"limit", "limit?", "a?b", "?a?"}
Parameters == {[name |-> n, type |-> "number", in |-> "query"] : n \in ParameterNames}
Methods == {"get", "post", "put", "delete"}
HeaderLists == {<<>>, <<"Authorization", "X-Id">>}

DecoderInputs ==
  {[method |-> "get", operationId |-> "getThing", parameters |-> <<>>,
    responses |-> rs, headers |-> <<>>] : rs \in SeqsUpTo(Responses, MaxResponses)}

\* every parameter list under "get", and every method without parameters
OperationInputs ==
  {[method |-> "get", operationId |-> "getThing", parameters |-> ps,
    responses |-> rs, headers |-> hs] :
      ps \in SeqsUpTo(Parameters, MaxParameters),
      rs \in SeqsUpTo(OpResponses, MaxOpResponses), hs \in HeaderLists}
    \cup
  {[method |-> m, operationId |-> "getThing", parameters |-> <<>>,
    responses |-> rs, headers |-> hs] :
      m \in Methods, rs \in SeqsUpTo(OpResponses, MaxOpResponses), hs \in HeaderLists}

NoResult == [fn |-> "none"]

Init ==
  /\ \/ operationInfo \in DecoderInputs /\ generateResponseDecoders = TRUE
     \/ operationInfo \in OperationInputs /\ generateResponseDecoders \in BOOLEAN
  /\ pc = "start"
  /\ result = NoResult

RenderOperation ==
  /\ pc = "start"
  /\ result' = [fn |-> "renderOperation",
                code |-> renderOperation(operationInfo, generateResponseDecoders)]
  /\ pc' = "done"
  /\ UNCHANGED <<operationInfo, generateResponseDecoders>>

RenderDecoderCode ==
  /\ pc = "start"
  /\ result' = [fn |-> "renderDecoderCode", code |-> renderDecoderCode(operationInfo)]
  /\ pc' = "done"
  /\ UNCHANGED <<operationInfo, generateResponseDecoders>>

GetDecoderForResponse ==
  /\ pc = "start"
  /\ \E k \in 1..Len(operationInfo.responses) :
       result' = [fn |-> "getDecoderForResponse", arg |-> operationInfo.responses[k],
                  code |-> getDecoderForResponse(operationInfo.responses[k], typeVarName)]
  /\ pc' = "done"
  /\ UNCHANGED <<operationInfo, generateResponseDecoders>>

Next == RenderOperation \/ RenderDecoderCode \/ GetDecoderForResponse

Spec == Init /\ [][Next]_vars

(***************************************************************************)
(* Reading the generated text back: the operators the properties use.      *)
(***************************************************************************)
\* the least position >= from at which sub occurs in s, or 0
IndexOfFrom(s, sub, from) ==
  LET m == Len(sub)
      last == Len(s) - m + 1
      occurs(i) == SubSeq(s, i, i + m - 1) = sub
  IN  IF from > last THEN 0
      ELSE LET i == CHOOSE k \in from..(last + 1) :
                      /\ k > last \/ occurs(k)
                      /\ \A j \in from..(k - 1) : ~occurs(j)
           IN  IF i > last THEN 0 ELSE i

IndexOf(s, sub) == IndexOfFrom(s, sub, 1)

\* the greatest position at which sub occurs in s, or 0
LastIndexOf(s, sub) ==
  LET m == Len(sub)
      last == Len(s) - m + 1
      occurs(i) == SubSeq(s, i, i + m - 1) = sub
  IN  IF last < 1 THEN 0
      ELSE LET back == CHOOSE d \in 0..last :
                         /\ d = last \/ occurs(last - d)
                         /\ \A j \in (last - d + 1)..last : ~occurs(j)
           IN  last - back

EndsWith(s, suffix) ==
  Len(suffix) <= Len(s) /\ SubSeq(s, Len(s) - Len(suffix) + 1, Len(s)) = suffix

Contains(s, sub) == IndexOf(s, sub) > 0

\* the number of (possibly overlapping) occurrences of sub in s
Occurrences(s, sub) ==
  Cardinality({i \in 1..(Len(s) - Len(sub) + 1) : SubSeq(s, i, i + Len(sub) - 1) = sub})

StartsWith(s, prefix) == Len(prefix) <= Len(s) /\ SubSeq(s, 1, Len(prefix)) = prefix

\* the text after the first occurrence of left
After(s, left) ==
  LET i == IndexOf(s, left)
  IN  IF i = 0 THEN "<no left marker>" ELSE SubSeq(s, i + Len(left), Len(s))

\* the text between the first occurrence of left and the next occurrence of right
Between(s, left, right) ==
  LET i == IndexOf(s, left)
      j == IF i = 0 THEN 0 ELSE IndexOfFrom(s, right, i + Len(left))
  IN  IF i = 0 THEN "<no left marker>"
      ELSE IF j = 0 THEN "<no right marker>"
      ELSE SubSeq(s, i + Len(left), j - 1)

\* a qualifying success entry, as the claims word it
Qualifies(r) == Len(r.e1) = 3 /\ Head(r.e1) = "2"

HasQualifying(responses) == \E k \in 1..Len(responses) : Qualifies(responses[k])

\* the position (1-based) of the first qualifying entry in input order
FirstQualifying(responses) ==
  CHOOSE k \in 1..Len(responses) :
    Qualifies(responses[k]) /\ \A j \in 1..Len(responses) : Qualifies(responses[j]) => k <= j

DecoderDone == pc = "done" /\ result.fn = "renderDecoderCode"
OperationDone == pc = "done" /\ result.fn = "renderOperation"
ResponseDone == pc = "done" /\ result.fn = "getDecoderForResponse"

\* a decoder block was rendered and is not empty
DecoderBlock == DecoderDone /\ result.code # ""

(***************************************************************************)
(* C1: renderDecoderCode returns the empty string if and only if no entry  *)
(* of the response list has a status code of length 3 starting with '2'    *)
(* (the empty list included); otherwise the block is not empty and holds   *)
(* the default-responses map, the responses type, the decoder function and *)
(* the default-decoder wrapper.                                            *)
(***************************************************************************)
C1_EmptyIffNoSuccessEntry ==
  DecoderDone =>
    LET id == operationInfo.operationId
        code == result.code
    IN  /\ (code = "") <=> ~HasQualifying(operationInfo.responses)
        /\ HasQualifying(operationInfo.responses) =>
             /\ Contains(code, "export const " \o uncapitalize(id) \o "DefaultResponses = {")
             /\ Contains(code, "export type " \o capitalize(id) \o "ResponsesT<")
             /\ Contains(code, "export function " \o id \o "Decoder<")
             /\ EndsWith(code, "export const " \o id \o "DefaultDecoder = () => "
                                 \o id \o "Decoder();")

\* an empty block for a list whose only '2' codes have the wrong length
C1_Witness ==
  /\ DecoderDone
  /\ result.code = ""
  /\ Len(operationInfo.responses) = 3
  /\ operationInfo.responses[1].e1 = "20"
  /\ operationInfo.responses[2].e1 = "2000"
  /\ operationInfo.responses[3].e1 = "500"

(***************************************************************************)
(* C2: the status code that keys the bare-decoder merge entry              *)
(* '{ <status>: overrideTypes }' is the status code of the first           *)
(* qualifying entry in input order, not of a later or a smaller one.       *)
(***************************************************************************)
C2_OverrideKeyIsFirstSuccessInInputOrder ==
  DecoderBlock =>
    Between(result.code, "...(isDecoder(overrideTypes) ? { ", ": overrideTypes }")
      = operationInfo.responses[FirstQualifying(operationInfo.responses)].e1

\* the first qualifying entry is "201", after a non-qualifying entry and
\* before the numerically smaller "200"
C2_Witness ==
  /\ DecoderBlock
  /\ Len(operationInfo.responses) = 3
  /\ operationInfo.responses[1].e1 = "500"
  /\ operationInfo.responses[2].e1 = "201"
  /\ operationInfo.responses[3].e1 = "200"

(***************************************************************************)
(* C3: a response whose status code is not exactly three decimal digits    *)
(* ("2XX", "2ab", "20", "2000") is never selected as the success response, *)
(* so a list made only of such entries yields an empty decoder block.      *)
(***************************************************************************)
IsDigit(c) == c \in {"0", "1", "2", "3", "4", "5", "6", "7", "8", "9"}

ThreeDigits(e1) == Len(e1) = 3 /\ \A i \in 1..3 : IsDigit(SubSeq(e1, i, i))

C3_NonNumericStatusNeverSelected ==
  DecoderDone =>
    /\ (\A k \in 1..Len(operationInfo.responses) :
          ~ThreeDigits(operationInfo.responses[k].e1)) => result.code = ""
    /\ result.code # "" =>
         ThreeDigits(Between(result.code, "...(isDecoder(overrideTypes) ? { ",
                             ": overrideTypes }"))

(***************************************************************************)
(* C4: in a non-empty decoder block the composed decoder follows input     *)
(* order: d_s1 for one response, otherwise the left-nested composition     *)
(* compose(...compose(compose(d_s1, d_s2), d_s3)..., d_sn), with one       *)
(* binding per response at the position of its response; never empty.      *)
(***************************************************************************)
RECURSIVE Repeat(_, _)
Repeat(s, n) == IF n = 0 THEN "" ELSE s \o Repeat(s, n - 1)

\* the left-nested composition, written out from the outside in
LeftNested(responses) ==
  LET n == Len(responses)
  IN  Repeat("r.composeResponseDecoders(", n - 1)
        \o "d" \o responses[1].e1
        \o join([k \in 1..(n - 1) |-> ", d" \o responses[k + 1].e1 \o ")"], "")

\* the text of the generated function's return statement, the last of the block
ReturnedExpression(code) ==
  LET i == LastIndexOf(code, "\n        return ")
      tail == SubSeq(code, i + Len("\n        return "), Len(code))
  IN  IF i = 0 THEN "<no return statement>"
      ELSE SubSeq(tail, 1,
                  IndexOf(tail, "\n      }\n\n      // Decodes the success response") - 1)

C4_ComposedDecodersLeftNestedInInputOrder ==
  DecoderBlock =>
    LET e == ReturnedExpression(result.code)
    IN  /\ e # ""
        /\ e = LeftNested(operationInfo.responses)
        /\ Len(operationInfo.responses) = 1 => e = "d" \o operationInfo.responses[1].e1

\* three responses, the success entry in the middle
C4_Witness ==
  /\ DecoderBlock
  /\ Len(operationInfo.responses) = 3
  /\ operationInfo.responses[1].e1 = "404"
  /\ operationInfo.responses[2].e1 = "200"
  /\ operationInfo.responses[3].e1 = "500"
  /\ ReturnedExpression(result.code)
       = "r.composeResponseDecoders(r.composeResponseDecoders(d404, d200), d500)"

(***************************************************************************)
(* C5: the per-response decoder expression is the fixed error-response     *)
(* decoder, with no reference to the type-map variable, exactly when the   *)
(* payload type name is "Error"; for every other name, "undefined"         *)
(* included, it is the runtime conditional on the type-map entry's name    *)
(* that selects the constant-undefined decoder or the structural decoder,  *)
(* both tagged with the status code and the header-name union.             *)
(***************************************************************************)
HeaderUnion(names) ==
  IF names = <<>> THEN "never" ELSE toUnionOfLiterals(names)

C5_DecoderExpressionPolicy ==
  ResponseDone =>
    LET s == result.arg.e1
        h == HeaderUnion(result.arg.e3)
        code == result.code
    IN  IF result.arg.e2 = "Error"
        THEN /\ code = "r.basicErrorResponseDecoder<" \o s \o ">(" \o s \o ")"
             /\ ~Contains(code, typeVarName)
        ELSE /\ IndexOf(code, typeVarName \o "[" \o s \o "].name === \"undefined\" ") = 1
             /\ Between(code, "\n        ? ", " \n        : ")
                  = "r.constantResponseDecoder<undefined, " \o s \o ", " \o h \o ">("
                      \o s \o ", undefined)"
             /\ After(code, " \n        : ")
                  = "r.ioResponseDecoder<" \o s \o ", (typeof type[" \o s
                      \o "])[\"_A\"], (typeof type[" \o s \o "])[\"_O\"], " \o h \o ">("
                      \o s \o ", type[" \o s \o "])"

\* the payload type name "undefined" still gets the runtime conditional
C5_Witness ==
  /\ ResponseDone
  /\ result.arg = [e1 |-> "404", e2 |-> "undefined", e3 |-> <<"a", "b">>]
  /\ Contains(result.code, "type[404].name === \"undefined\"")
  /\ Contains(result.code, "r.ioResponseDecoder<404")

(***************************************************************************)
(* C6: the default-responses map has exactly one entry per response, in    *)
(* input order, keyed by the status code; its value is t.undefined exactly *)
(* when the payload type name is "undefined" and the payload type name     *)
(* verbatim otherwise ("Error" included); duplicate status codes are       *)
(* neither merged nor dropped.                                             *)
(***************************************************************************)
ExpectedDefaultEntry(r) ==
  r.e1 \o ": " \o (CASE r.e2 = "undefined" -> "t.undefined" [] OTHER -> r.e2)

DefaultMapEntries(code) == Between(code, "DefaultResponses = {\n      ", "\n    };\n")

C6_DefaultResponsesMap ==
  DecoderBlock =>
    DefaultMapEntries(result.code)
      = join([k \in 1..Len(operationInfo.responses) |->
                ExpectedDefaultEntry(operationInfo.responses[k])], ", ")

\* one status code three times, with each kind of payload type name
C6_Witness ==
  /\ DecoderBlock
  /\ DefaultMapEntries(result.code) = "200: t.undefined, 500: Error, 200: Thing"

(***************************************************************************)
(* C7: the responses generic type for n responses declares exactly 2n      *)
(* type parameters A0, C0, A1, C1, ..., each defaulting to the payload     *)
(* type of its response, and n fields in input order, field i named by     *)
(* status code i and typed over (A_i, C_i); the decoder binding and the    *)
(* return-type member of response i use the same index i.                  *)
(***************************************************************************)
ExpectedGenerics(responses) ==
  [k \in 1..(2 * Len(responses)) |->
     LET i == (k - 1) \div 2
     IN  (IF k % 2 = 1 THEN "A" ELSE "C") \o numberToString(i)
           \o " = " \o responses[i + 1].e2]

ExpectedFields(responses) ==
  [k \in 1..Len(responses) |->
     responses[k].e1 \o ": t.Type<A" \o numberToString(k - 1)
       \o ", C" \o numberToString(k - 1) \o ">"]

ExpectedReturnMembers(responses) ==
  [k \in 1..Len(responses) |->
     "r.IResponseType<" \o responses[k].e1 \o ", A" \o numberToString(k - 1)
       \o ", " \o HeaderUnion(responses[k].e3) \o ">"]

ExpectedBindings(responses) ==
  [k \in 1..Len(responses) |->
     "\n    const d" \o responses[k].e1 \o " = ("
       \o getDecoderForResponse(responses[k], "type")
       \o ") as r.ResponseDecoder<" \o ExpectedReturnMembers(responses)[k] \o ">;\n  "]

ResponsesTypeDeclaration(code) == After(code, "export type ")

RECURSIVE Split(_, _)
Split(s, sep) ==
  IF s = "" THEN <<>>
  ELSE LET i == IndexOf(s, sep)
       IN  IF i = 0 THEN <<s>>
           ELSE <<SubSeq(s, 1, i - 1)>> \o Split(SubSeq(s, i + Len(sep), Len(s)), sep)

\* the properties of the request type's parameter object
Properties(code) == Split(Between(code, "ApiRequestType<{", "}, "), ",")

IsOptionalProperty(prop) == Contains(prop, "\"?: ")

OptionalProperty(key, type) == "readonly \"" \o key \o "\"?: " \o type
RequiredProperty(key, type) == "readonly \"" \o key \o "\": " \o type

HasQuestionMark(name) == Occurrences(name, "?") > 0
EndsInQuestionMark(name) == Len(name) > 0 /\ SubSeq(name, Len(name), Len(name)) = "?"
WithoutTrailingQuestionMark(name) == SubSeq(name, 1, Len(name) - 1)
WithoutFirstQuestionMark(name) ==
  LET i == IndexOf(name, "?")
  IN  SubSeq(name, 1, i - 1) \o SubSeq(name, i + 1, Len(name))

\* C8 as claimed
C8_OptionalIffNameEndsInQuestionMark ==
  OperationDone =>
    LET ps == operationInfo.parameters
        props == Properties(result.code)
    IN  /\ Len(props) = Len(ps)
        /\ \A k \in 1..Len(ps) :
             /\ IsOptionalProperty(props[k]) <=> EndsInQuestionMark(ps[k].name)
             /\ EndsInQuestionMark(ps[k].name) =>
                  props[k] = OptionalProperty(WithoutTrailingQuestionMark(ps[k].name),
                                              ps[k].type)
             /\ ~HasQuestionMark(ps[k].name) =>
                  props[k] = RequiredProperty(ps[k].name, ps[k].type)

\* C8 as amended
C8_OptionalIffNameContainsQuestionMark ==
  OperationDone =>
    LET ps == operationInfo.parameters
        props == Properties(result.code)
    IN  /\ Len(props) = Len(ps)
        /\ \A k \in 1..Len(ps) :
             /\ IsOptionalProperty(props[k]) <=> HasQuestionMark(ps[k].name)
             /\ HasQuestionMark(ps[k].name) =>
                  props[k] = OptionalProperty(WithoutFirstQuestionMark(ps[k].name),
                                              ps[k].type)
             /\ ~HasQuestionMark(ps[k].name) =>
                  props[k] = RequiredProperty(ps[k].name, ps[k].type)

\* "limit?" and a name whose first "?" is not its last character
C8_Witness ==
  /\ OperationDone
  /\ Len(operationInfo.parameters) = 2
  /\ operationInfo.parameters[1].name = "limit?"
  /\ operationInfo.parameters[2].name = "?a?"
  /\ Properties(result.code) = <<"readonly \"limit\"?: number", "readonly \"a?\"?: number">>

(***************************************************************************)
(* C9: renderOperation always emits the request-type declaration (one      *)
(* wrapped-response member per response in input order, header union       *)
(* "never" without headers), whatever the responses and the flag; the text *)
(* after the declaration is exactly the renderDecoderCode block when       *)
(* generateResponseDecoders is true and empty when it is false, so an      *)
(* operation with no 2xx response gets its request type and an empty       *)
(* decoder block.                                                          *)
(***************************************************************************)
ExpectedHeadersUnion(headers) ==
  IF headers = <<>> THEN "never"
  ELSE join([k \in 1..Len(headers) |-> "\"" \o headers[k] \o "\""], "|")

ExpectedResponseMembers(responses) ==
  [k \in 1..Len(responses) |->
     "r.IResponseType<" \o responses[k].e1 \o ", " \o responses[k].e2 \o ", "
       \o HeaderUnion(responses[k].e3) \o ">"]

DeclarationStart(op) ==
  "\n    /****************************************************************\n     * "
    \o op.operationId \o "\n     */\n\n    // Request type definition\n    export type "
    \o capitalize(op.operationId) \o "T = r.I" \o capitalize(op.method) \o "ApiRequestType<{"

\* the text that follows the request-type declaration
AfterDeclaration(code) == After(code, ">;\n  ")

C9_RequestTypeAlwaysEmitted ==
  OperationDone =>
    LET op == operationInfo
        code == result.code
    IN  /\ StartsWith(code, DeclarationStart(op))
        /\ StartsWith(After(code, "}, "),
                      ExpectedHeadersUnion(op.headers) \o ", never, "
                        \o join(ExpectedResponseMembers(op.responses), "|") \o ">;\n  ")
        /\ AfterDeclaration(code)
             = (IF generateResponseDecoders THEN renderDecoderCode(op) ELSE "")
        /\ ~HasQualifying(op.responses) => AfterDeclaration(code) = ""

\* decoders requested for an operation whose only response is ("500", "Error", [])
C9_Witness ==
  /\ OperationDone
  /\ generateResponseDecoders
  /\ operationInfo.responses = <<[e1 |-> "500", e2 |-> "Error", e3 |-> <<>>]>>
  /\ Contains(result.code, ", never, never, r.IResponseType<500, Error, never>>;")
  /\ AfterDeclaration(result.code) = ""

(***************************************************************************)
(* C10: in every non-empty decoder block the type accepted for the         *)
(* bare-decoder argument (the t.Type<A_i, C_i> alternative of the          *)
(* overrideTypes parameter and of the isDecoder guard) uses the index i of *)
(* the first qualifying success entry, also when a later response repeats  *)
(* that entry's status code.                                               *)
(***************************************************************************)
SuccessTypeOfFirstQualifying(responses) ==
  LET i == FirstQualifying(responses) - 1
  IN  "t.Type<A" \o numberToString(i) \o ", C" \o numberToString(i) \o ">"

C10_BareDecoderTypeUsesFirstSuccessIndex ==
  DecoderBlock =>
    /\ Between(result.code, ">> | ", " | undefined = {}")
         = SuccessTypeOfFirstQualifying(operationInfo.responses)
    /\ Between(result.code, "(d: any): d is ", " =>\n")
         = SuccessTypeOfFirstQualifying(operationInfo.responses)

====
